---- MODULE Spec2Model ----
(***************************************************************************)
(* A model of the rLportfolio kernel: the permutation (Lehmer) state code, *)
(* the market environment (ranking-based and forecast-based), the tabular  *)
(* Q-function with its policies and TD update, and the episode trainer.    *)
(*                                                                         *)
(* float64 values are modelled as exact rationals <<num, den>> (den > 0,   *)
(* lowest terms); a value that is not a finite number (NaN, +-Inf) is the  *)
(* single value NonFinite.                                                 *)
(***************************************************************************)
EXTENDS Integers, Sequences, FiniteSets, TLC

VARIABLES
    lehmer,   \* the ordering / state index pair EncodeMAState and DecodeMAState work on
    env,      \* the MarketEnv struct
    agent,    \* the QLearningAgent: its table, its policy and its rates
    trainer,  \* the locals of Trainer.Run and the calls it has made
    ret       \* what the last call returned

vars == <<lehmer, env, agent, trainer, ret>>

---------------------------------------------------------------------------
(* Rational arithmetic standing for float64.                               *)

Abs(x) == IF x < 0 THEN -x ELSE x

RECURSIVE GCD(_, _)
GCD(a, b) == IF b = 0 THEN a ELSE GCD(b, a % b)

NonFinite == <<0, 0>>

IsFinite(a) == a[2] # 0

RNorm(n, d) ==
    IF d = 0 THEN NonFinite
    ELSE LET g == GCD(Abs(n), Abs(d))
             s == IF d < 0 THEN -1 ELSE 1
         IN  <<s * (n \div g), s * (d \div g)>>

R(n) == <<n, 1>>

Zero == R(0)

One == R(1)

RNeg(a) == IF IsFinite(a) THEN <<-a[1], a[2]>> ELSE NonFinite

RAdd(a, b) ==
    IF ~IsFinite(a) \/ ~IsFinite(b) THEN NonFinite
    ELSE LET g == GCD(a[2], b[2])
         IN  RNorm(a[1] * (b[2] \div g) + b[1] * (a[2] \div g), (a[2] \div g) * b[2])

RSub(a, b) == RAdd(a, RNeg(b))

RMul(a, b) ==
    IF ~IsFinite(a) \/ ~IsFinite(b) THEN NonFinite
    ELSE LET g1 == GCD(Abs(a[1]), b[2])
             g2 == GCD(Abs(b[1]), a[2])
         IN  <<(a[1] \div g1) * (b[1] \div g2), (a[2] \div g2) * (b[2] \div g1)>>

\* a / b; a division by zero gives no finite number
RDiv(a, b) ==
    IF ~IsFinite(a) \/ ~IsFinite(b) \/ b[1] = 0 THEN NonFinite
    ELSE RMul(a, IF b[1] < 0 THEN <<-b[2], -b[1]>> ELSE <<b[2], b[1]>>)

\* a < b; every comparison with a non-number is false
RLt(a, b) ==
    /\ IsFinite(a)
    /\ IsFinite(b)
    /\ LET g == GCD(a[2], b[2])
       IN  a[1] * (b[2] \div g) < b[1] * (a[2] \div g)

RLe(a, b) == IsFinite(a) /\ IsFinite(b) /\ ~RLt(b, a)

RGt(a, b) == RLt(b, a)

RGe(a, b) == RLe(b, a)

---------------------------------------------------------------------------
(* pkg/moving-average: the Lehmer code of a ranking.                       *)

NumRanks == 7

factorials == <<720, 120, 24, 6, 2, 1, 1>>

\* the inner loop of EncodeMAState: how many unused j in 1..(v-1)
CountUnusedBelow(used, v) == Cardinality({j \in 1..(v - 1) : j \notin used})

RECURSIVE EncodeLoop(_, _, _, _)
EncodeLoop(ordering, i, used, state) ==
    IF i > NumRanks THEN state
    ELSE EncodeLoop(ordering, i + 1, used \cup {ordering[i]},
                    state + CountUnusedBelow(used, ordering[i]) * factorials[i])

\* EncodeMAState counting every smaller rank, used or not
EncodeMAState_CountAll(ordering) ==
    LET RECURSIVE Loop(_, _)
        Loop(i, state) ==
            IF i > NumRanks THEN state
            ELSE Loop(i + 1, state + (ordering[i] - 1) * factorials[i])
    IN  IF Len(ordering) # NumRanks THEN 0 ELSE Loop(1, 0)

EncodeMAState(ordering) ==
    IF Len(ordering) # NumRanks THEN 0 ELSE EncodeLoop(ordering, 1, {}, 0)

\* the inner loop of DecodeMAState: the unused j in 1..7 with exactly pos
\* unused values below it, or 0 (the slot keeps its zero) when there is none
PickUnused(used, pos) ==
    LET hit == {j \in 1..NumRanks : j \notin used /\ CountUnusedBelow(used, j) = pos}
    IN  IF hit = {} THEN 0 ELSE CHOOSE j \in hit : TRUE

RECURSIVE DecodeLoop(_, _, _, _)
DecodeLoop(stateIndex, i, used, ordering) ==
    IF i > NumRanks THEN ordering
    ELSE LET fact == factorials[i]
             pos  == stateIndex \div fact
             j    == PickUnused(used, pos)
         IN  DecodeLoop(stateIndex % fact, i + 1,
                        IF j = 0 THEN used ELSE used \cup {j},
                        Append(ordering, j))

\* DecodeMAState that never reduces the index by the factorial it divided by
DecodeMAState_NoRemainder(stateIndex) ==
    LET RECURSIVE Loop(_, _, _)
        Loop(i, used, ordering) ==
            IF i > NumRanks THEN ordering
            ELSE LET j == PickUnused(used, stateIndex \div factorials[i])
                 IN  Loop(i + 1, IF j = 0 THEN used ELSE used \cup {j}, Append(ordering, j))
    IN  Loop(1, {}, <<>>)

DecodeMAState(stateIndex) == DecodeLoop(stateIndex, 1, {}, <<>>)

NumMAStates == 5040

Perms7 == Permutations(1..NumRanks)

IsPermutation(o) == Len(o) = NumRanks /\ {o[i] : i \in 1..NumRanks} = 1..NumRanks

\* lehmer: the input given, the calls made on it so far, and the current
\* ordering and state index
LehmerIdle == [kind |-> "none", input |-> 0, calls |-> <<>>, ordering |-> <<>>, stateIndex |-> 0]

EncodeCall ==
    /\ \/ lehmer.kind = "ordering" /\ lehmer.calls = <<>>
       \/ lehmer.kind = "index" /\ lehmer.calls = <<"Decode">>
    /\ lehmer' = [lehmer EXCEPT !.stateIndex = EncodeMAState(lehmer.ordering),
                                !.calls = Append(@, "Encode")]
    /\ UNCHANGED <<env, agent, trainer, ret>>

DecodeCall ==
    /\ \/ lehmer.kind = "index" /\ lehmer.calls = <<>>
       \/ lehmer.kind = "ordering" /\ lehmer.calls = <<"Encode">>
    /\ lehmer' = [lehmer EXCEPT !.ordering = DecodeMAState(lehmer.stateIndex),
                                !.calls = Append(@, "Decode")]
    /\ UNCHANGED <<env, agent, trainer, ret>>

EnvIdle == [scheme |-> "none"]

AgentIdle == [policy |-> "none"]

TrainerIdle == [pc |-> "none"]

RetIdle == [op |-> "none"]

InitCode ==
    /\ \/ \E p \in Perms7 :
            lehmer = [kind |-> "ordering", input |-> p, calls |-> <<>>,
                      ordering |-> p, stateIndex |-> 0]
       \/ \E i \in 0..(NumMAStates - 1) :
            lehmer = [kind |-> "index", input |-> i, calls |-> <<>>,
                      ordering |-> <<>>, stateIndex |-> i]
    /\ env = EnvIdle
    /\ agent = AgentIdle
    /\ trainer = TrainerIdle
    /\ ret = RetIdle

NextCode == EncodeCall \/ DecodeCall

SpecCode == InitCode /\ [][NextCode]_vars

---------------------------------------------------------------------------
(* pkg/agent: the actions and their sizing fractions.                      *)

ActionNothing == 0

ActionBuySmall == 1

ActionBuyLarge == 2

ActionSellSmall == 3

ActionSellLarge == 4

NumActions == 5

BuySmall == <<1, 10>>

BuyLarge == <<1, 2>>

SellSmall == <<1, 10>>

SellLarge == <<1, 2>>

\* a Buy of either size / a Sell of either size
IsBuy(action) == action \in {ActionBuySmall, ActionBuyLarge}

IsSell(action) == action \in {ActionSellSmall, ActionSellLarge}

---------------------------------------------------------------------------
(* pkg/agent: the tabular Q-function, the policies and the TD update.  A   *)
(* table is a function from row index to row (row i of the code is Q[i],   *)
(* action a of a row is element a + 1).  The table NewQTable makes holds   *)
(* NumActions zeros in every row; it is kept as the rows written so far,   *)
(* every row outside the domain being ZeroRow.                             *)

ZeroRow == [a \in 1..NumActions |-> Zero]

NewQTable == [i \in {} |-> ZeroRow]

QRow(Q, index) == IF index \in DOMAIN Q THEN Q[index] ELSE ZeroRow

QGet(Q, s, a) == QRow(Q, s.Index)[a + 1]

QSet(Q, s, a, value) ==
    [i \in DOMAIN Q \cup {s.Index} |->
        IF i = s.Index THEN [QRow(Q, i) EXCEPT ![a + 1] = value] ELSE Q[i]]

RECURSIVE MaxValueLoop(_, _, _)
MaxValueLoop(arr, i, max) ==
    IF i > Len(arr) THEN max
    ELSE MaxValueLoop(arr, i + 1, IF RGt(arr[i], max) THEN arr[i] ELSE max)

MaxValue(arr) == IF Len(arr) = 0 THEN Zero ELSE MaxValueLoop(arr, 2, arr[1])

QMax(Q, s) == MaxValue(QRow(Q, s.Index))

RECURSIVE ArgMaxLoop(_, _, _)
ArgMaxLoop(arr, i, best) ==
    IF i >= Len(arr) THEN best
    ELSE ArgMaxLoop(arr, i + 1, IF RGt(arr[i + 1], arr[best + 1]) THEN i ELSE best)

\* the last index among the maxima of the row, written to be put in the
\* place of ArgMax
ArgMax_LastMaximum(arr) ==
    IF Len(arr) = 0 THEN 0
    ELSE CHOOSE b \in 0..(Len(arr) - 1) :
            /\ \A j \in 1..Len(arr) : ~RGt(arr[j], arr[b + 1])
            /\ \A j \in (b + 2)..Len(arr) : RLt(arr[j], arr[b + 1])

ArgMax(arr) == IF Len(arr) = 0 THEN 0 ELSE ArgMaxLoop(arr, 1, 0)

\* GreedyPolicy.Act
GreedyAct(Q, s) == ArgMax(QRow(Q, s.Index))

\* EpsilonGreedyPolicy.Act, u being what RNG.Float64() gave and k what
\* RNG.Intn(NumActions) would give
EpsilonGreedyAct(Q, epsilon, s, u, k) ==
    IF RLt(u, epsilon) THEN k ELSE ArgMax(QRow(Q, s.Index))

NewQLearningAgent(Q, policy, epsilon, alpha, gamma) ==
    [Q |-> Q, policy |-> policy, Epsilon |-> epsilon, Alpha |-> alpha, Gamma |-> gamma]

\* QLearningAgent.Act with the two draws of the generator
Act(a, s, u, k) ==
    IF a.policy = "greedy" THEN GreedyAct(a.Q, s)
    ELSE EpsilonGreedyAct(a.Q, a.Epsilon, s, u, k)

\* a TD update that bootstraps from the next state even when the episode
\* is over, written to be put in the place of Learn
Learn_IgnoresDone(a, t) ==
    [a EXCEPT !.Q = QSet(a.Q, t.State, t.Action,
        RAdd(QGet(a.Q, t.State, t.Action),
             RMul(a.Alpha, RSub(RAdd(t.Reward, RMul(a.Gamma, QMax(a.Q, t.NextState))),
                                QGet(a.Q, t.State, t.Action)))))]

\* QLearningAgent.Learn: the agent after the TD update
Learn(a, t) ==
    LET qCurrent == QGet(a.Q, t.State, t.Action)
        qNext    == IF ~t.Done THEN QMax(a.Q, t.NextState) ELSE Zero
        tdTarget == RAdd(t.Reward, RMul(a.Gamma, qNext))
        tdError  == RSub(tdTarget, qCurrent)
        newValue == RAdd(qCurrent, RMul(a.Alpha, tdError))
    IN  [a EXCEPT !.Q = QSet(a.Q, t.State, t.Action, newValue)]

---------------------------------------------------------------------------
(* pkg/state: the position bands and the two state encodings.              *)

PosNone == 0

PosMedium == 1

PosHigh == 2

NumPositionCategories == 3

\* the ranking-based state space (pkg/state/state.go, second definition)
NumMarketStates == 5040

NumStatesRanking == NumMarketStates * NumPositionCategories * NumPositionCategories

\* an encoding with one band too many per position factor, written to be
\* put in the place of EncodeRanking
EncodeRanking_FourBands(maState, cashCat, sharesCat) ==
    maState * (NumPositionCategories + 1) * (NumPositionCategories + 1)
        + cashCat * (NumPositionCategories + 1) + sharesCat

EncodeRanking(maState, cashCat, sharesCat) ==
    maState * NumPositionCategories * NumPositionCategories
        + cashCat * NumPositionCategories + sharesCat

NewStateRanking(maState, cashCat, sharesCat) ==
    [Index |-> EncodeRanking(maState, cashCat, sharesCat),
     MAState |-> maState, CashCat |-> cashCat, SharesCat |-> sharesCat]

\* the forecast-based state space
ExpRetNeutral == 0

ExpRetSmallPos == 1

ExpRetMedPos == 2

ExpRetLargePos == 3

ExpRetSmallNeg == 4

ExpRetMedNeg == 5

ExpRetLargeNeg == 6

NumExpRetCategories == 7

MinDistSmall == 0

MinDistLarge == 1

NumMinDistCategories == 2

NumStatesForecast ==
    NumExpRetCategories * NumMinDistCategories * NumPositionCategories * NumPositionCategories

EncodeForecast(expRet, minDist, cashCat, sharesCat) ==
    (expRet * NumMinDistCategories + minDist) * NumPositionCategories * NumPositionCategories
        + cashCat * NumPositionCategories + sharesCat

NewStateForecast(expRet, minDist, cashCat, sharesCat) ==
    [Index |-> EncodeForecast(expRet, minDist, cashCat, sharesCat),
     ExpRetCat |-> expRet, MinDistCat |-> minDist,
     CashCat |-> cashCat, SharesCat |-> sharesCat]

GetExpRetCategory(expRet) ==
    IF RLt(expRet, <<-1, 50>>) THEN ExpRetLargeNeg
    ELSE IF RLt(expRet, <<-1, 100>>) THEN ExpRetMedNeg
    ELSE IF RLt(expRet, <<-1, 200>>) THEN ExpRetSmallNeg
    ELSE IF RGt(expRet, <<1, 50>>) THEN ExpRetLargePos
    ELSE IF RGt(expRet, <<1, 100>>) THEN ExpRetMedPos
    ELSE IF RGt(expRet, <<1, 200>>) THEN ExpRetSmallPos
    ELSE ExpRetNeutral

GetMinDistCategory(minDist) ==
    IF RLt(minDist, <<1, 200>>) THEN MinDistSmall ELSE MinDistLarge

GetCashCategory(cash, portfolioValue) ==
    IF RLe(portfolioValue, Zero) THEN PosNone
    ELSE LET cashRatio == RDiv(cash, portfolioValue)
         IN  IF RLt(cashRatio, <<1, 5>>) THEN PosNone
             ELSE IF RLt(cashRatio, <<4, 5>>) THEN PosMedium
             ELSE PosHigh

GetSharesCategory(sharesValue, portfolioValue) ==
    IF RLe(portfolioValue, Zero) THEN PosNone
    ELSE LET sharesRatio == RDiv(sharesValue, portfolioValue)
         IN  IF RLt(sharesRatio, <<1, 5>>) THEN PosNone
             ELSE IF RLt(sharesRatio, <<4, 5>>) THEN PosMedium
             ELSE PosHigh

---------------------------------------------------------------------------
(* pkg/moving-average: the ranking of the six moving averages and the      *)
(* price (MAPeriods 10..60, the list the ranking-based environment uses).  *)
(* A price series is a sequence of integers; prices[idx] of the code is    *)
(* prices[idx + 1] here.                                                   *)

MAPeriods == <<10, 20, 30, 40, 50, 60>>

\* MAPeriods of the later version of the package
MAPeriods120 == <<5, 10, 20, 40, 80, 120>>

Price == 7

\* the sum of prices[from..to] the loop over j adds up, taken by halves
RECURSIVE SumPrices(_, _, _)
SumPrices(prices, from, to) ==
    IF from > to THEN 0
    ELSE IF from = to THEN prices[to + 1]
    ELSE SumPrices(prices, from, (from + to) \div 2)
            + SumPrices(prices, (from + to) \div 2 + 1, to)

\* |diff| < 1e-10, for diff = n/d: |n| * 10^10 < d
WithinTolerance(diff) ==
    Abs(diff[1]) <= ((diff[2] - 1) \div 100000) \div 100000

\* a comparison that orders ties by descending tag, written to be put in
\* the place of OrderingLess
OrderingLess_TiesByDescendingTag(a, b) ==
    LET diff == RSub(a.Value, b.Value)
    IN  IF WithinTolerance(diff) THEN a.Index > b.Index ELSE diff[1] > 0

\* the comparison sort.Slice is given: ties by ascending tag, else descending value
OrderingLess(a, b) ==
    LET diff == RSub(a.Value, b.Value)
    IN  IF WithinTolerance(diff) THEN a.Index < b.Index ELSE diff[1] > 0

\* the seven (Value, Index) pairs GetMAOrdering sorts: the averages from
\* period i on, then the price
RECURSIVE MAValues(_, _, _)
MAValues(prices, idx, i) ==
    IF i > Len(MAPeriods) THEN <<[Value |-> R(prices[idx + 1]), Index |-> Price]>>
    ELSE <<[Value |-> RNorm(SumPrices(prices, idx - MAPeriods[i] + 1, idx), MAPeriods[i]),
            Index |-> MAPeriods[i] \div 10]>> \o MAValues(prices, idx, i + 1)

\* how many pairs OrderingLess puts before each pair
Ranks(values) ==
    [i \in 1..Len(values) |->
        Cardinality({j \in 1..Len(values) : OrderingLess(values[j], values[i])})]

\* sort.Slice with OrderingLess: each pair goes to the place given by how
\* many pairs come before it (the ranks are computed once)
SortedTags(values) ==
    CHOOSE tags \in {[k \in 1..Len(values) |->
                         values[CHOOSE i \in 1..Len(values) : r[i] = k - 1].Index] :
                     r \in {Ranks(values)}} : TRUE

GetMAOrdering(prices, idx) ==
    IF idx < 0 \/ idx >= Len(prices) THEN <<>>
    ELSE CHOOSE tags \in {SortedTags(v) : v \in {MAValues(prices, idx, 1)}} : TRUE

\* the code of an ordering, 0 when GetMAOrdering gave none
MAStateOf(ordering) == IF Len(ordering) # NumRanks THEN 0 ELSE EncodeMAState(ordering)

GetMAStateForIndex(prices, idx) ==
    CHOOSE state \in {MAStateOf(o) : o \in {GetMAOrdering(prices, idx)}} : TRUE

---------------------------------------------------------------------------
(* pkg/local-approximation: the k-nearest-neighbour forecast with its      *)
(* bounded max-heap (container/heap on neighborMaxHeap; index i of the     *)
(* code is element i + 1 here).                                            *)

\* the integer square root, by bisection of lo..hi (lo * lo <= n < (hi + 1)^2)
RECURSIVE ISqrtIn(_, _, _)
ISqrtIn(n, lo, hi) ==
    IF lo >= hi THEN lo
    ELSE LET mid == (lo + hi + 1) \div 2
         IN  IF mid * mid <= n THEN ISqrtIn(n, mid, hi) ELSE ISqrtIn(n, lo, mid - 1)

ISqrt(n) == ISqrtIn(n, 0, IF n < 46340 THEN n ELSE 46340)

SqrtScale == 10 * 10

\* math.Sqrt: exact on the square of a rational, else rounded down to a
\* multiple of 1/SqrtScale
RSqrt(x) ==
    IF ~IsFinite(x) \/ x[1] < 0 THEN NonFinite
    ELSE LET rn == ISqrt(x[1])
             rd == ISqrt(x[2])
         IN  IF rn * rn = x[1] /\ rd * rd = x[2] THEN <<rn, rd>>
             ELSE RNorm(ISqrt((x[1] * SqrtScale * SqrtScale) \div x[2]), SqrtScale)

HeapLess(h, i, j) == RGt(h[i + 1].distance, h[j + 1].distance)

HeapSwap(h, i, j) == [h EXCEPT ![i + 1] = h[j + 1], ![j + 1] = h[i + 1]]

RECURSIVE up(_, _)
up(h, j) ==
    IF j = 0 THEN h
    ELSE LET i == (j - 1) \div 2
         IN  IF ~HeapLess(h, j, i) THEN h ELSE up(HeapSwap(h, i, j), i)

RECURSIVE down(_, _, _)
down(h, i, n) ==
    LET j1 == 2 * i + 1
    IN  IF j1 >= n THEN h
        ELSE LET j == IF j1 + 1 < n /\ HeapLess(h, j1 + 1, j1) THEN j1 + 1 ELSE j1
             IN  IF ~HeapLess(h, j, i) THEN h ELSE down(HeapSwap(h, i, j), j, n)

HeapPush(h, x) == up(Append(h, x), Len(h))

\* heap.Fix(h, 0): down from the root (up from the root moves nothing)
HeapFixRoot(h) == down(h, 0, Len(h))

\* heap.Pop: the root goes last, the rest is sifted, the last is removed
HeapPopLast(h2) == [heap |-> SubSeq(h2, 1, Len(h2) - 1), x |-> h2[Len(h2)]]

HeapPop(h) == HeapPopLast(down(HeapSwap(h, 0, Len(h) - 1), 0, Len(h) - 1))

\* the L2 distance of the window ending at i to the target window
WindowDistance(returns, m, i) ==
    LET RECURSIVE SumSq(_)
        SumSq(j) ==
            IF j >= m THEN Zero
            ELSE LET diff == RSub(returns[Len(returns) - m + j + 1], returns[i - m + 1 + j + 1])
                 IN  RAdd(RMul(diff, diff), SumSq(j + 1))
    IN  RSqrt(SumSq(0))

\* a scan that keeps the first n candidates, written to be put in the
\* place of Offer
Offer_NeverReplaces(h, n, nb) == IF Len(h) < n THEN HeapPush(h, nb) ELSE h

\* the scan: push while the heap holds fewer than n, else replace a root
\* that is strictly farther
Offer(h, n, nb) ==
    IF Len(h) < n THEN HeapPush(h, nb)
    ELSE IF RLt(nb.distance, h[1].distance) THEN HeapFixRoot([h EXCEPT ![1] = nb])
    ELSE h

\* a scan that leaves out the last candidate window, written to be put in
\* the place of ScanWindows
RECURSIVE ScanWindows_StopsEarly(_, _, _, _, _, _)
ScanWindows_StopsEarly(returns, m, n, i, maxStart, h) ==
    IF i > maxStart - 1 THEN h
    ELSE ScanWindows_StopsEarly(returns, m, n, i + 1, maxStart,
                                Offer(h, n, [distance |-> WindowDistance(returns, m, i),
                                             position |-> i]))

\* a scan that leaves out the first candidate window, written to be put
\* in the place of ScanWindows
RECURSIVE ScanWindows_SkipsFirst(_, _, _, _, _, _)
ScanWindows_SkipsFirst(returns, m, n, i, maxStart, h) ==
    IF i > maxStart THEN h
    ELSE ScanWindows_SkipsFirst(returns, m, n, i + 1, maxStart,
                                IF i = m - 1 THEN h
                                ELSE Offer(h, n, [distance |-> WindowDistance(returns, m, i),
                                                  position |-> i]))

RECURSIVE ScanWindows(_, _, _, _, _, _)
ScanWindows(returns, m, n, i, maxStart, h) ==
    IF i > maxStart THEN h
    ELSE ScanWindows(returns, m, n, i + 1, maxStart,
                     Offer(h, n, [distance |-> WindowDistance(returns, m, i),
                                  position |-> i]))

RECURSIVE PopAll(_)
PopAll(h) ==
    IF Len(h) = 0 THEN <<>>
    ELSE <<HeapPop(h).x>> \o PopAll(HeapPop(h).heap)

\* slices.SortFunc by ascending distance (an insertion sort; the order of
\* equal distances does not reach the result)
RECURSIVE SortByDistance(_)
SortByDistance(ns) ==
    IF Len(ns) <= 1 THEN ns
    ELSE LET rest == SortByDistance(Tail(ns))
             k == Cardinality({j \in 1..Len(rest) : RLt(rest[j].distance, Head(ns).distance)})
         IN  SubSeq(rest, 1, k) \o <<Head(ns)>> \o SubSeq(rest, k + 1, Len(rest))

\* the earlier implementation: every candidate window is appended, the
\* slice is sorted by ascending distance and cut to its first n
SortAndTruncate(returns, m, n) ==
    CHOOSE selected \in
        {SubSeq(sorted, 1, IF n > Len(sorted) THEN Len(sorted) ELSE n) :
            sorted \in {SortByDistance(
                           [k \in 1..(Len(returns) - 1 - 1 - (m - 1) + 1) |->
                               [distance |-> WindowDistance(returns, m, m - 1 + k - 1),
                                position |-> m - 1 + k - 1]])}} : TRUE

RECURSIVE RSum(_)
RSum(xs) == IF Len(xs) = 0 THEN Zero ELSE RAdd(Head(xs), RSum(Tail(xs)))

RECURSIVE RMin(_)
RMin(xs) ==
    IF Len(xs) = 1 THEN Head(xs)
    ELSE LET r == RMin(Tail(xs)) IN IF RLt(Head(xs), r) THEN Head(xs) ELSE r

\* the plain mean of the next values, written to be put in the place of
\* WeightedPrediction
WeightedPrediction_Unweighted(distances, nextValues) ==
    RDiv(RSum(nextValues), R(Len(nextValues)))

\* the inverse-distance weighted average, weight 1 / (distance + 1e-10),
\* taken in the limit of the 1e-10 term: neighbours at distance 0 outweigh
\* all others, and share their weight equally
WeightedPrediction(distances, nextValues) ==
    LET idxs  == 1..Len(distances)
        exact == {i \in idxs : distances[i] = Zero}
        pick  == IF exact # {} THEN exact ELSE idxs
        w(i)  == IF exact # {} THEN One ELSE RDiv(One, distances[i])
        wseq  == [i \in idxs |-> IF i \in pick THEN w(i) ELSE Zero]
    IN  RDiv(RSum([i \in idxs |-> RMul(wseq[i], nextValues[i])]), RSum(wseq))

Inf == R(1000)

LAFail(e) == [prediction |-> Zero, minDistance |-> Inf, err |-> e, neighbors |-> <<>>]

Distances(neighbors) == [i \in 1..Len(neighbors) |-> neighbors[i].distance]

NextValues(returns, neighbors) ==
    [i \in 1..Len(neighbors) |-> returns[neighbors[i].position + 1 + 1]]

\* the result built from the neighbours sorted by distance
LAResult(returns, neighbors) ==
    [prediction  |-> WeightedPrediction(Distances(neighbors), NextValues(returns, neighbors)),
     minDistance |-> RMin(Distances(neighbors)),
     err         |-> "nil",
     neighbors   |-> neighbors]

LAFromHeap(returns, h) ==
    IF Len(h) = 0 THEN LAFail("ErrNoPatternsFound")
    ELSE LAResult(returns, SortByDistance(PopAll(h)))

\* the checks with n tested before m, written to be put in the place of
\* LocalApproximation
LocalApproximation_NeighborsFirst(returns, m, n) ==
    IF Len(returns) = 0 THEN LAFail("ErrEmptyPrices")
    ELSE IF n < 1 THEN LAFail("ErrInvalidNeighborsCount")
    ELSE IF m < 1 THEN LAFail("ErrInvalidWindowSize")
    ELSE IF Len(returns) < m + 1 THEN LAFail("ErrInsufficientData")
    ELSE IF Len(returns) - 1 - 1 < m - 1 THEN LAFail("ErrInsufficientHistoricalData")
    ELSE LAFromHeap(returns, ScanWindows(returns, m, n, m - 1, Len(returns) - 1 - 1, <<>>))

\* minStart is m - 1, maxStart is len(returns) - 2
LocalApproximation(returns, m, n) ==
    IF Len(returns) = 0 THEN LAFail("ErrEmptyPrices")
    ELSE IF m < 1 THEN LAFail("ErrInvalidWindowSize")
    ELSE IF n < 1 THEN LAFail("ErrInvalidNeighborsCount")
    ELSE IF Len(returns) < m + 1 THEN LAFail("ErrInsufficientData")
    ELSE IF Len(returns) - 1 - 1 < m - 1 THEN LAFail("ErrInsufficientHistoricalData")
    ELSE LAFromHeap(returns, ScanWindows(returns, m, n, m - 1, Len(returns) - 1 - 1, <<>>))

---------------------------------------------------------------------------
(* pkg/env: the market environment.  scheme "ranking" is pkg/env/market.go *)
(* (moving-average ranking, consecutive-trade penalty), scheme "forecast"  *)
(* the local-approximation environment, whose struct has no trade          *)
(* counters: its four penalty fields stay at zero and are never read.      *)

DefaultInitialCash == R(10000)

DefaultMinStartIdx == 20

DefaultCommission == <<1, 500>>

DefaultMaxConsecutiveTrades == 3

DefaultTradePenalty == <<1, 100>>

MALookback == 60

simpleReturns(prices) ==
    IF Len(prices) < 2 THEN <<>>
    ELSE [i \in 1..(Len(prices) - 1) |-> RSub(RDiv(R(prices[i + 1]), R(prices[i])), One)]

MaxInt(a, b) == IF a < b THEN b ELSE a

NewMarketEnv(config) ==
    LET InitialCash == IF RLe(config.InitialCash, Zero) THEN DefaultInitialCash
                       ELSE config.InitialCash
        MinStartIdx == IF config.MinStartIdx < 1 THEN DefaultMinStartIdx
                       ELSE config.MinStartIdx
        Commission  == IF RLe(config.Commission, Zero) THEN DefaultCommission
                       ELSE config.Commission
        ranking     == config.scheme = "ranking"
        startIdx    == IF ranking THEN MaxInt(MALookback, MinStartIdx)
                       ELSE MaxInt(config.ApproxM + 1, MinStartIdx)
    IN  [scheme               |-> config.scheme,
         prices               |-> config.Prices,
         returns              |-> simpleReturns(config.Prices),
         currentIdx           |-> startIdx,
         cash                 |-> InitialCash,
         shares               |-> Zero,
         initialValue         |-> InitialCash,
         startIdx             |-> startIdx,
         approxM              |-> config.ApproxM,
         approxN              |-> config.ApproxN,
         commission           |-> Commission,
         consecutiveBuys      |-> 0,
         consecutiveSells     |-> 0,
         maxConsecutiveTrades |->
             IF ~ranking THEN 0
             ELSE IF config.MaxConsecutiveTrades <= 0 THEN DefaultMaxConsecutiveTrades
             ELSE config.MaxConsecutiveTrades,
         tradePenalty         |->
             IF ~ranking THEN Zero
             ELSE IF RLe(config.TradePenalty, Zero) THEN DefaultTradePenalty
             ELSE config.TradePenalty]

PriceAt(e, idx) == R(e.prices[idx + 1])

\* cash + shares * price
PortfolioValueAt(e, price) == RAdd(e.cash, RMul(e.shares, price))

\* the cash and shares bands of the portfolio at the current price
CashCat(e) ==
    GetCashCategory(e.cash, PortfolioValueAt(e, PriceAt(e, e.currentIdx)))

SharesCat(e) ==
    GetSharesCategory(RMul(e.shares, PriceAt(e, e.currentIdx)),
                      PortfolioValueAt(e, PriceAt(e, e.currentIdx)))

getStateRanking(e) ==
    IF e.currentIdx < e.startIdx \/ e.currentIdx >= Len(e.prices)
    THEN NewStateRanking(0, 0, 0)
    ELSE IF e.currentIdx < MALookback THEN NewStateRanking(0, 0, 0)
    ELSE NewStateRanking(GetMAStateForIndex(e.prices, e.currentIdx),
                         CashCat(e), SharesCat(e))

\* a state built from the values returned with an error, written to be put
\* in the place of ForecastState
ForecastState_IgnoresError(e, la) ==
    NewStateForecast(GetExpRetCategory(la.prediction),
                     GetMinDistCategory(la.minDistance),
                     CashCat(e), SharesCat(e))

\* the state of a forecast, the default state when the forecast failed
ForecastState(e, la) ==
    IF la.err # "nil" THEN NewStateForecast(0, 0, 0, 0)
    ELSE NewStateForecast(GetExpRetCategory(la.prediction),
                          GetMinDistCategory(la.minDistance),
                          CashCat(e), SharesCat(e))

ForecastFromHistory(e, returnsHistory) ==
    IF Len(returnsHistory) < e.approxM + 1 THEN NewStateForecast(0, 0, 0, 0)
    ELSE ForecastState(e, LocalApproximation(returnsHistory, e.approxM, e.approxN))

getStateForecast(e) ==
    IF e.currentIdx < e.startIdx \/ e.currentIdx >= Len(e.prices)
    THEN NewStateForecast(0, 0, 0, 0)
    ELSE ForecastFromHistory(e, simpleReturns(SubSeq(e.prices, 1, e.currentIdx + 1)))

getState(e) == IF e.scheme = "ranking" THEN getStateRanking(e) ELSE getStateForecast(e)

\* a Buy that is credited the commission instead of paying it, written to
\* be put in the place of ExecuteBuy
ExecuteBuy_CommissionCredited(e, fraction, price) ==
    LET cost           == RMul(e.cash, fraction)
        commissionCost == RMul(cost, e.commission)
    IN  [e EXCEPT !.cash = RSub(e.cash, cost),
                  !.shares = RAdd(e.shares, RDiv(RAdd(cost, commissionCost), price))]

\* cash and shares after a Buy of the given fraction of the cash
ExecuteBuy(e, fraction, price) ==
    LET cost           == RMul(e.cash, fraction)
        commissionCost == RMul(cost, e.commission)
    IN  [e EXCEPT !.cash = RSub(e.cash, cost),
                  !.shares = RAdd(e.shares, RDiv(RSub(cost, commissionCost), price))]

\* a Sell that does not test the shares held, written to be put in the
\* place of ExecuteSell
ExecuteSell_Unguarded(e, fraction, price) ==
    [e EXCEPT !.cash = RAdd(e.cash, RSub(RMul(RMul(e.shares, fraction), price),
                                         RMul(RMul(RMul(e.shares, fraction), price),
                                              e.commission))),
              !.shares = RSub(e.shares, RMul(e.shares, fraction))]

\* cash and shares after a Sell of the given fraction of the shares
ExecuteSell(e, fraction, price) ==
    IF RLe(e.shares, Zero) THEN e
    ELSE LET sellShares     == RMul(e.shares, fraction)
             proceeds       == RMul(sellShares, price)
             commissionCost == RMul(proceeds, e.commission)
         IN  [e EXCEPT !.cash = RAdd(e.cash, RSub(proceeds, commissionCost)),
                       !.shares = RSub(e.shares, sellShares)]

\* a table with the small and the large fractions exchanged, written to be
\* put in the place of executeAction
executeAction_SwapsFractions(e, action, price) ==
    CASE action = ActionNothing   -> e
      [] action = ActionBuySmall  -> ExecuteBuy(e, BuyLarge, price)
      [] action = ActionBuyLarge  -> ExecuteBuy(e, BuySmall, price)
      [] action = ActionSellSmall -> ExecuteSell(e, SellLarge, price)
      [] action = ActionSellLarge -> ExecuteSell(e, SellSmall, price)
      [] OTHER                    -> e

executeAction(e, action, price) ==
    CASE action = ActionNothing   -> e
      [] action = ActionBuySmall  -> ExecuteBuy(e, BuySmall, price)
      [] action = ActionBuyLarge  -> ExecuteBuy(e, BuyLarge, price)
      [] action = ActionSellSmall -> ExecuteSell(e, SellSmall, price)
      [] action = ActionSellLarge -> ExecuteSell(e, SellLarge, price)
      [] OTHER                    -> e

\* a rational stand-in for the natural logarithm: 2(x - 1)/(x + 1), which is
\* 0 at 1, increasing, and of the sign of ln x; no finite number for x <= 0
LogReturn(x) ==
    IF ~RGt(x, Zero) THEN NonFinite
    ELSE RDiv(RMul(R(2), RSub(x, One)), RAdd(x, One))

\* the log return of the one-step change of the portfolio value
CalculateReward(portfolioValueBefore, portfolioValueAfter) ==
    IF RGt(portfolioValueBefore, Zero)
    THEN LogReturn(RDiv(portfolioValueAfter, portfolioValueBefore))
    ELSE Zero

\* a penalty already earned by the action that reaches the threshold,
\* written to be put in the place of calculateTradePenalty
calculateTradePenalty_AtThreshold(e, action) ==
    IF IsBuy(action)
    THEN [env |-> [e EXCEPT !.consecutiveBuys = @ + 1, !.consecutiveSells = 0],
          penalty |-> IF e.consecutiveBuys + 1 >= e.maxConsecutiveTrades
                      THEN e.tradePenalty ELSE Zero]
    ELSE IF IsSell(action)
    THEN [env |-> [e EXCEPT !.consecutiveSells = @ + 1, !.consecutiveBuys = 0],
          penalty |-> IF e.consecutiveSells + 1 >= e.maxConsecutiveTrades
                      THEN e.tradePenalty ELSE Zero]
    ELSE [env |-> [e EXCEPT !.consecutiveBuys = 0, !.consecutiveSells = 0],
          penalty |-> Zero]

\* the counters after the action, and the penalty it earns
calculateTradePenalty(e, action) ==
    IF IsBuy(action)
    THEN [env |-> [e EXCEPT !.consecutiveBuys = @ + 1, !.consecutiveSells = 0],
          penalty |-> IF e.consecutiveBuys + 1 > e.maxConsecutiveTrades
                      THEN e.tradePenalty ELSE Zero]
    ELSE IF IsSell(action)
    THEN [env |-> [e EXCEPT !.consecutiveSells = @ + 1, !.consecutiveBuys = 0],
          penalty |-> IF e.consecutiveSells + 1 > e.maxConsecutiveTrades
                      THEN e.tradePenalty ELSE Zero]
    ELSE [env |-> [e EXCEPT !.consecutiveBuys = 0, !.consecutiveSells = 0],
          penalty |-> Zero]

\* a Reset that forgets the trade counters, written to be put in the place
\* of ResetFields
ResetFields_KeepsCounters(e) ==
    [e EXCEPT !.currentIdx = e.startIdx, !.cash = e.initialValue, !.shares = Zero]

\* the fields Reset assigns
ResetFields(e) ==
    [e EXCEPT !.currentIdx = e.startIdx,
              !.cash = e.initialValue,
              !.shares = Zero,
              !.consecutiveBuys = 0,
              !.consecutiveSells = 0]

\* Reset: the struct after the call and the State returned
Reset(e) == [env |-> ResetFields(e), state |-> getState(ResetFields(e))]

\* an end of Step that is done one index earlier, written to be put in the
\* place of StepReturn
StepReturn_DoneAtLenMinus2(e3, reward) ==
    [env    |-> e3,
     next   |-> getState(e3),
     reward |-> reward,
     done   |-> e3.currentIdx >= Len(e3.prices) - 2]

\* an end of Step that is done one index later, written to be put in the
\* place of StepReturn
StepReturn_DoneAtLen(e3, reward) ==
    [env    |-> e3,
     next   |-> getState(e3),
     reward |-> reward,
     done   |-> e3.currentIdx >= Len(e3.prices)]

\* the end of Step: the state is read at the new index, done is computed
StepReturn(e3, reward) ==
    [env    |-> e3,
     next   |-> getState(e3),
     reward |-> reward,
     done   |-> e3.currentIdx >= Len(e3.prices) - 1]

\* the penalty is taken off the reward (the forecast environment has none)
StepPenalty(tp, reward) ==
    StepReturn([tp.env EXCEPT !.currentIdx = @ + 1], RSub(reward, tp.penalty))

\* e is the struct before executeAction, e2 the struct after it
StepTraded(e, e2, action) ==
    StepPenalty(IF e.scheme = "ranking" THEN calculateTradePenalty(e2, action)
                ELSE [env |-> e2, penalty |-> Zero],
                CalculateReward(PortfolioValueAt(e, PriceAt(e, e.currentIdx)),
                                PortfolioValueAt(e2, PriceAt(e, e.currentIdx + 1))))

\* a Step whose terminal return zeroes the trade counters, written to be
\* put in the place of Step
Step_TerminalClearsCounters(e, action) ==
    IF e.currentIdx >= Len(e.prices) - 1
    THEN [env |-> [e EXCEPT !.consecutiveBuys = 0, !.consecutiveSells = 0],
          next |-> getState(e), reward |-> Zero, done |-> TRUE]
    ELSE StepTraded(e, executeAction(e, action, PriceAt(e, e.currentIdx)), action)

\* a Step that starts the episode again once it is over, written to be put
\* in the place of Step
Step_TerminalResets(e, action) ==
    IF e.currentIdx >= Len(e.prices) - 1
    THEN [env |-> ResetFields(e), next |-> getState(e), reward |-> Zero, done |-> TRUE]
    ELSE StepTraded(e, executeAction(e, action, PriceAt(e, e.currentIdx)), action)

\* Step: the struct after the call and the (next, reward, done) returned
Step(e, action) ==
    IF e.currentIdx >= Len(e.prices) - 1
    THEN [env |-> e, next |-> getState(e), reward |-> Zero, done |-> TRUE]
    ELSE StepTraded(e, executeAction(e, action, PriceAt(e, e.currentIdx)), action)

---------------------------------------------------------------------------
(* The environment driven by arbitrary callers: any accepted configuration *)
(* over a positive price series, then Reset and Step in any order with any *)
(* action value (NumActions itself stands for a value with no case).       *)

MaxSteps == 2

PriceLevels == {1, 2}

\* 60 prices of history in three plateaus, before the prices traded at
RankingHistory == [i \in 1..MALookback |-> IF i <= 20 THEN 4 ELSE IF i <= 40 THEN 2 ELSE 1]

Tails == [1..(MaxSteps + 1) -> PriceLevels]

RankingSeries == {RankingHistory \o t : t \in Tails}

\* series too short to trade on, or just long enough to
RankingShort ==
    {<<>>, <<2, 1, 2>>, RankingHistory, RankingHistory \o <<2>>,
     RankingHistory \o <<2, 1>>, RankingHistory \o <<2, 1, 2>>, RankingHistory \o <<1, 1, 2>>}

ForecastSeries == {<<1, 2>> \o t : t \in Tails}

ForecastShort ==
    {<<>>, <<2>>, <<1, 2>>, <<1, 2, 1>>, <<1, 2, 1, 2>>, <<1, 2, 2, 1, 2>>, <<2, 1, 1, 1, 2>>}

RankingConfig(ps, p) ==
    [scheme |-> "ranking", Prices |-> ps, InitialCash |-> p[1], Commission |-> p[2],
     MinStartIdx |-> p[3], MaxConsecutiveTrades |-> p[4], TradePenalty |-> p[5],
     ApproxM |-> 0, ApproxN |-> 0]

ForecastConfig(ps, p) ==
    [scheme |-> "forecast", Prices |-> ps, InitialCash |-> p[1], Commission |-> p[2],
     MinStartIdx |-> p[3], MaxConsecutiveTrades |-> 0, TradePenalty |-> Zero,
     ApproxM |-> p[4], ApproxN |-> p[5]]

\* every field left to its default is exercised on the short series
RankingConfigs ==
    {RankingConfig(ps, p) :
        ps \in RankingSeries \cup RankingShort,
        p \in {<<R(1000), <<1, 2>>, 61, 1, <<1, 4>>>>,
               <<R(1000), <<3, 2>>, 0, 1, Zero>>,
               <<R(-5), One, 60, 0, <<1, 4>>>>}}
        \cup {RankingConfig(ps, <<Zero, Zero, 0, 0, Zero>>) : ps \in RankingShort}

ForecastConfigs ==
    {ForecastConfig(ps, p) :
        ps \in ForecastSeries \cup ForecastShort,
        p \in {<<R(1000), <<1, 2>>, 1, 1, 2>>,
               <<R(1000), <<3, 2>>, 2, 0, 1>>,
               <<R(-5), One, 3, 1, 0>>,
               <<R(1000), <<1, 2>>, 0, 2, 1>>}}
        \cup {ForecastConfig(ps, <<Zero, Zero, 1, 1, 1>>) : ps \in ForecastShort}

Configs == RankingConfigs \cup ForecastConfigs

ActionValues == 0..NumActions

\* the direction and the length of the run of same-direction actions that
\* ends with this action
NextStreak(streak, action) ==
    IF IsBuy(action) THEN <<"buy", IF streak[1] = "buy" THEN streak[2] + 1 ELSE 1>>
    ELSE IF IsSell(action) THEN <<"sell", IF streak[1] = "sell" THEN streak[2] + 1 ELSE 1>>
    ELSE <<"none", 0>>

\* ret: the call, the call before it, what it returned, whether Step
\* returned at its first test (early), whether Reset has been called, and
\* the State the first Reset returned; the configuration given to
\* NewMarketEnv and the action given to Step; streak is the run of
\* same-direction actions given to the Steps of the ranking environment
\* that traded since the last Reset, kept from the actions alone
InitEnv ==
    /\ lehmer = LehmerIdle
    /\ agent = AgentIdle
    /\ trainer = TrainerIdle
    /\ \E config \in Configs :
          /\ env = NewMarketEnv(config)
          /\ ret = [op |-> "NewMarketEnv", prev |-> "none", state |-> <<>>,
                    reward |-> Zero, done |-> FALSE, early |-> FALSE,
                    afterReset |-> FALSE, first |-> <<>>, config |-> config,
                    streak |-> <<"none", 0>>]

ResetCall ==
    /\ env.scheme # "none"
    /\ \E r \in {Reset(env)} :
           /\ env' = r.env
           /\ ret' = [op |-> "Reset", prev |-> ret.op, state |-> r.state, reward |-> Zero,
                      done |-> FALSE, early |-> FALSE, afterReset |-> TRUE,
                      first |-> IF ret.afterReset THEN ret.first ELSE r.state,
                      streak |-> <<"none", 0>>]
    /\ UNCHANGED <<lehmer, agent, trainer>>

StepCall ==
    /\ env.scheme # "none"
    /\ \E action \in ActionValues :
          \E r \in {Step(env, action)} :
              /\ env' = r.env
              /\ ret' = [op |-> "Step", prev |-> ret.op, state |-> r.next,
                         reward |-> r.reward, done |-> r.done,
                         early |-> env.currentIdx >= Len(env.prices) - 1,
                         afterReset |-> ret.afterReset, first |-> ret.first,
                         action |-> action,
                         streak |-> IF env.scheme = "ranking"
                                       /\ env.currentIdx < Len(env.prices) - 1
                                    THEN NextStreak(ret.streak, action)
                                    ELSE ret.streak]
    /\ UNCHANGED <<lehmer, agent, trainer>>

NextEnv == ResetCall \/ StepCall

SpecEnv == InitEnv /\ [][NextEnv]_vars

---------------------------------------------------------------------------
(* The policies on arbitrary tables: a table of one or two rows of any     *)
(* width up to MaxRowLen (NewGreedyPolicy and NewEpsilonGreedyPolicy take  *)
(* any [][]float64), finite values, and any draws of the generator.        *)

MaxRowLen == 3

QValues == {R(-1), Zero, <<1, 2>>}

RECURSIVE RowsOfLen(_)
RowsOfLen(n) ==
    IF n = 0 THEN {<<>>} ELSE {Append(r, v) : r \in RowsOfLen(n - 1), v \in QValues}

Rows == UNION {RowsOfLen(n) : n \in 0..MaxRowLen}

\* RNG.Float64() lies in [0, 1)
RandomFloats == {Zero, <<1, 2>>, <<99, 100>>}

Epsilons == {Zero, <<1, 10>>, One}

PolicyStates == {[Index |-> 0], [Index |-> 1]}

InitPolicy ==
    /\ lehmer = LehmerIdle
    /\ env = EnvIdle
    /\ trainer = TrainerIdle
    /\ \E r0 \in Rows, r1 \in {<<>>, ZeroRow}, policy \in {"greedy", "epsilon"} :
          \E epsilon \in IF policy = "greedy" THEN {Zero} ELSE Epsilons :
              agent = NewQLearningAgent([i \in {0, 1} |-> IF i = 0 THEN r0 ELSE r1],
                                        policy, epsilon, Zero, Zero)
    /\ ret = [op |-> "NewPolicy", s |-> [Index |-> 0], action |-> 0, explore |-> FALSE]

GreedyActCall ==
    /\ agent.policy = "greedy"
    /\ \E s \in PolicyStates :
          ret' = [op |-> "Act", s |-> s, action |-> GreedyAct(agent.Q, s), explore |-> FALSE]
    /\ UNCHANGED <<lehmer, env, agent, trainer>>

EpsilonGreedyActCall ==
    /\ agent.policy = "epsilon"
    /\ \E s \in PolicyStates, u \in RandomFloats, k \in 0..(NumActions - 1) :
          ret' = [op |-> "Act", s |-> s,
                  action |-> EpsilonGreedyAct(agent.Q, agent.Epsilon, s, u, k),
                  explore |-> RLt(u, agent.Epsilon)]
    /\ UNCHANGED <<lehmer, env, agent, trainer>>

NextPolicy == GreedyActCall \/ EpsilonGreedyActCall

SpecPolicy == InitPolicy /\ [][NextPolicy]_vars

---------------------------------------------------------------------------
(* The agent learning from arbitrary transitions: a fresh table, then up   *)
(* to MaxLearns calls of Learn.                                            *)

MaxLearns == 2

Rates == {<<<<1, 10>>, <<19, 20>>>>, <<<<1, 2>>, <<1, 2>>>>, <<One, Zero>>}

LearnStates == {[Index |-> 0], [Index |-> NumStatesRanking - 1]}

Transitions ==
    [State : LearnStates, Action : {ActionNothing, ActionBuyLarge, ActionSellLarge},
     Reward : {R(-1), One}, NextState : LearnStates, Done : BOOLEAN]

InitAgent ==
    /\ lehmer = LehmerIdle
    /\ env = EnvIdle
    /\ trainer = TrainerIdle
    /\ \E rates \in Rates :
          agent = NewQLearningAgent(NewQTable, "epsilon", <<1, 10>>, rates[1], rates[2])
    /\ ret = [op |-> "NewQLearningAgent", learns |-> 0]

LearnCall ==
    /\ agent.policy # "none"
    /\ ret.learns < MaxLearns
    /\ \E t \in Transitions :
          /\ agent' = Learn(agent, t)
          /\ ret' = [op |-> "Learn", learns |-> ret.learns + 1, t |-> t]
    /\ UNCHANGED <<lehmer, env, trainer>>

NextAgent == LearnCall

SpecAgent == InitAgent /\ [][NextAgent]_vars

---------------------------------------------------------------------------
(* Trainer.Run(episodes, reportInterval) on a market environment and a     *)
(* Q-learning agent, one step per call it makes.  trainer.calls is the     *)
(* sequence of the calls made, trainer.reports the episode numbers         *)
(* printed, trainer.Q0 the table at the call of Run.  ret is what the      *)
(* environment and the agent were given and returned: returned is the      *)
(* State the environment returned last, before the one it had returned     *)
(* when Step was called, actArg and actRet the argument and the result of  *)
(* the last Act, stepArg the argument of the last Step, learnt the         *)
(* argument of the last Learn.                                             *)

MaxEpisodes == 2

ReportIntervals == {-1, 0, 1, 2}

DefaultReportInterval == 100

\* short episodes: none, one or two trading steps
TrainerConfigs ==
    {RankingConfig(<<>>, <<R(1000), <<1, 2>>, 60, 1, <<1, 4>>>>),
     RankingConfig(<<2, 1, 2>>, <<R(1000), <<1, 2>>, 60, 1, <<1, 4>>>>),
     RankingConfig(RankingHistory \o <<2, 1>>, <<R(1000), <<1, 2>>, 60, 1, <<1, 4>>>>),
     ForecastConfig(<<1, 2, 1, 2>>, <<R(1000), <<1, 2>>, 2, 1, 1>>),
     ForecastConfig(<<1, 2, 1, 2, 1>>, <<R(1000), <<3, 2>>, 2, 1, 2>>)}

\* a table trained before the run
TrainedTable == QSet(NewQTable, [Index |-> 0], ActionBuySmall, One)

\* a loop test that admits one episode too many, written to be put in the
\* place of EpisodesLeft
EpisodesLeft_Inclusive(ep, episodes) == ep <= episodes

\* for ep := 0; ep < episodes; ep++
EpisodesLeft(ep, episodes) == ep < episodes

InitTrainer ==
    /\ lehmer = LehmerIdle
    /\ \E config \in TrainerConfigs : env = NewMarketEnv(config)
    /\ \E Q \in {NewQTable, TrainedTable}, policy \in {"greedy", "epsilon"} :
          agent = NewQLearningAgent(Q, policy, <<1, 2>>, <<1, 2>>, <<1, 2>>)
    /\ \E episodes \in 0..MaxEpisodes, reportInterval \in ReportIntervals :
          trainer = [pc |-> "Run", episodes |-> episodes, reportInterval |-> reportInterval,
                     ep |-> 0, s |-> <<>>, done |-> FALSE, episodeReward |-> Zero,
                     action |-> 0, next |-> <<>>, reward |-> Zero, d |-> FALSE,
                     calls |-> <<>>, reports |-> <<>>, Q0 |-> agent.Q]
    /\ ret = [op |-> "none", returned |-> <<>>, before |-> <<>>, actArg |-> <<>>,
              actRet |-> 0, stepArg |-> 0, reward |-> Zero, done |-> FALSE,
              learnt |-> <<>>]

\* if reportInterval <= 0 { reportInterval = 100 }
RunEnter ==
    /\ trainer.pc = "Run"
    /\ trainer' = [trainer EXCEPT
                      !.reportInterval = IF @ <= 0 THEN DefaultReportInterval ELSE @,
                      !.pc = "for"]
    /\ UNCHANGED <<lehmer, env, agent, ret>>

\* the loop test holds: s := t.Env.Reset(); done := false; episodeReward := 0
EpisodeStart ==
    /\ trainer.pc = "for"
    /\ EpisodesLeft(trainer.ep, trainer.episodes)
    /\ \E r \in {Reset(env)} :
          /\ env' = r.env
          /\ trainer' = [trainer EXCEPT !.s = r.state, !.done = FALSE,
                                         !.episodeReward = Zero,
                                         !.calls = Append(@, "Reset"), !.pc = "while"]
          /\ ret' = [ret EXCEPT !.op = "Reset", !.returned = r.state]
    /\ UNCHANGED <<lehmer, agent>>

\* the loop test fails: Run returns
RunReturn ==
    /\ trainer.pc = "for"
    /\ ~EpisodesLeft(trainer.ep, trainer.episodes)
    /\ trainer' = [trainer EXCEPT !.pc = "returned"]
    /\ UNCHANGED <<lehmer, env, agent, ret>>

\* action := t.Agent.Act(s)
TrainerAct ==
    /\ trainer.pc = "while"
    /\ ~trainer.done
    /\ \E u \in {Zero, <<99, 100>>}, k \in 0..(NumActions - 1) :
          \E a \in {Act(agent, trainer.s, u, k)} :
              /\ trainer' = [trainer EXCEPT !.action = a,
                                             !.calls = Append(@, "Act"), !.pc = "Step"]
              /\ ret' = [ret EXCEPT !.op = "Act", !.actArg = trainer.s, !.actRet = a]
    /\ UNCHANGED <<lehmer, env, agent>>

\* next, reward, d := t.Env.Step(action)
TrainerStep ==
    /\ trainer.pc = "Step"
    /\ \E r \in {Step(env, trainer.action)} :
          /\ env' = r.env
          /\ trainer' = [trainer EXCEPT !.next = r.next, !.reward = r.reward, !.d = r.done,
                                         !.calls = Append(@, "Step"), !.pc = "Learn"]
          /\ ret' = [ret EXCEPT !.op = "Step", !.stepArg = trainer.action,
                                 !.before = ret.returned, !.returned = r.next,
                                 !.reward = r.reward, !.done = r.done]
    /\ UNCHANGED <<lehmer, agent>>

\* a loop body that assigns s = next before the call of Learn, written to
\* be put in the place of TrainerLearn
TrainerLearn_AfterAssignment ==
    /\ trainer.pc = "Learn"
    /\ \E t \in {[State |-> trainer.next, Action |-> trainer.action,
                   Reward |-> trainer.reward, NextState |-> trainer.next,
                   Done |-> trainer.d]} :
          /\ agent' = Learn(agent, t)
          /\ ret' = [ret EXCEPT !.op = "Learn", !.learnt = t]
    /\ trainer' = [trainer EXCEPT !.s = trainer.next, !.done = trainer.d,
                                   !.episodeReward = RAdd(@, trainer.reward),
                                   !.calls = Append(@, "Learn"), !.pc = "while"]
    /\ UNCHANGED <<lehmer, env>>

\* t.Agent.Learn(...); s = next; done = d; episodeReward += reward
TrainerLearn ==
    /\ trainer.pc = "Learn"
    /\ \E t \in {[State |-> trainer.s, Action |-> trainer.action,
                   Reward |-> trainer.reward, NextState |-> trainer.next,
                   Done |-> trainer.d]} :
          /\ agent' = Learn(agent, t)
          /\ ret' = [ret EXCEPT !.op = "Learn", !.learnt = t]
    /\ trainer' = [trainer EXCEPT !.s = trainer.next, !.done = trainer.d,
                                   !.episodeReward = RAdd(@, trainer.reward),
                                   !.calls = Append(@, "Learn"), !.pc = "while"]
    /\ UNCHANGED <<lehmer, env>>

\* the episode is over: the report when (ep + 1) % reportInterval == 0, ep++
EpisodeEnd ==
    /\ trainer.pc = "while"
    /\ trainer.done
    /\ trainer' = [trainer EXCEPT
                      !.reports = IF (trainer.ep + 1) % trainer.reportInterval = 0
                                  THEN Append(@, trainer.ep + 1) ELSE @,
                      !.ep = @ + 1,
                      !.pc = "for"]
    /\ UNCHANGED <<lehmer, env, agent, ret>>

NextTrainer ==
    \/ RunEnter
    \/ EpisodeStart
    \/ RunReturn
    \/ TrainerAct
    \/ TrainerStep
    \/ TrainerLearn
    \/ EpisodeEnd

SpecTrainer == InitTrainer /\ [][NextTrainer]_vars

\* Run is at a call of Reset, Act, Step or Learn
CallPending ==
    \/ trainer.pc = "for" /\ EpisodesLeft(trainer.ep, trainer.episodes)
    \/ trainer.pc = "while" /\ ~trainer.done
    \/ trainer.pc \in {"Step", "Learn"}

\* Run is one sequential program: as long as it has a next statement it
\* executes it, and a call it makes returns.  The second conjunct is the
\* weak fairness of the four calls with their enabling condition written
\* out as CallPending.
SpecTrainerFair ==
    /\ SpecTrainer
    /\ WF_vars(RunEnter \/ RunReturn \/ EpisodeEnd)
    /\ \/ []<>~CallPending
       \/ []<><<EpisodeStart \/ TrainerAct \/ TrainerStep \/ TrainerLearn>>_vars

---------------------------------------------------------------------------
(* LocalApproximation called on its own: every series of up to MaxReturns  *)
(* values with every window size and neighbour count around it, and the    *)
(* series of local_approximation_test.go with their m and n.               *)

MaxReturns == 4

ReturnLevels == {1, 2, 3}

\* the (returns, m, n) of the calls
LAInputs ==
    {<<[i \in DOMAIN f |-> R(f[i])], m, n>> :
        f \in UNION {[1..k -> ReturnLevels] : k \in 0..MaxReturns},
        m \in (-1)..MaxReturns, n \in 0..MaxReturns}
    \cup {<<[i \in 1..Len(rs) |-> R(rs[i])], 3, n>> :
            rs \in {<<1, 2, 3, 1, 2, 3, 1, 2>>, <<5, 6, 7, 8, 9, 10, 1, 2, 3>>,
                    <<5, 10, 15, 20, 25, 30, 5, 10, 15>>},
            n \in {1, 2}}

InitLA ==
    /\ lehmer = LehmerIdle
    /\ env = EnvIdle
    /\ agent = AgentIdle
    /\ trainer = TrainerIdle
    /\ \E inp \in LAInputs :
          ret = [op |-> "none", returns |-> inp[1], m |-> inp[2], n |-> inp[3],
                 result |-> LAFail("none")]

LocalApproximationCall ==
    /\ ret.op = "none"
    /\ "returns" \in DOMAIN ret
    /\ ret' = [ret EXCEPT !.op = "LocalApproximation",
                          !.result = LocalApproximation(ret.returns, ret.m, ret.n)]
    /\ UNCHANGED <<lehmer, env, agent, trainer>>

SpecLA == InitLA /\ [][LocalApproximationCall]_vars

---------------------------------------------------------------------------
(* GetMAOrdering called on its own: series of 60 prices in six blocks of   *)
(* ten, each block at one level and the last price at any level, read at   *)
(* the last index, and at the two indices next to the series.              *)

MaxPriceLevel == 3

InitMA ==
    /\ lehmer = LehmerIdle
    /\ env = EnvIdle
    /\ agent = AgentIdle
    /\ trainer = TrainerIdle
    /\ \E b \in [1..Len(MAPeriods) -> 1..MaxPriceLevel], p \in 1..MaxPriceLevel,
          idx \in {-1, MALookback - 1, MALookback} :
          ret = [op |-> "none", idx |-> idx, ordering |-> <<>>,
                 prices |-> [i \in 1..MALookback |->
                                IF i = MALookback THEN p ELSE b[((i - 1) \div 10) + 1]]]

GetMAOrderingCall ==
    /\ ret.op = "none"
    /\ "idx" \in DOMAIN ret
    /\ ret' = [ret EXCEPT !.op = "GetMAOrdering",
                          !.ordering = GetMAOrdering(ret.prices, ret.idx)]
    /\ UNCHANGED <<lehmer, env, agent, trainer>>

SpecMA == InitMA /\ [][GetMAOrderingCall]_vars

---------------------------------------------------------------------------
(* GetMADivergenceState of the later version of pkg/moving-average, called *)
(* on its own: series of DivLen prices in four plateaus of any level up to *)
(* MaxPriceLevel (positions 0..109, 110..119, 120 and 121..131), and the   *)
(* indices around 120 and 130.                                             *)

Converging == 0

Neutral == 1

Diverging == 2

DivMinIdx == 120

DivLookback == 10

DivLen == DivMinIdx + DivLookback + 2

\* the six averages ending at idx; the loop for the earlier index clamps a
\* negative start to 0 and still divides by the period
MAsAt(prices, idx, clamp) ==
    [i \in 1..Len(MAPeriods120) |->
        RNorm(SumPrices(prices,
                        IF clamp /\ idx - MAPeriods120[i] + 1 < 0 THEN 0
                        ELSE idx - MAPeriods120[i] + 1,
                        idx),
              MAPeriods120[i])]

\* the comparison of the spread change with 1% of (max + min) / 2
DivergenceOf(currentMAs, prevMAs) ==
    CHOOSE d \in
        {IF RLt(spreadChange, RNeg(threshold)) THEN Converging
         ELSE IF RGt(spreadChange, threshold) THEN Diverging
         ELSE Neutral :
            spreadChange \in {RSub(RSub(MaxValue(currentMAs), RMin(currentMAs)),
                                   RSub(MaxValue(prevMAs), RMin(prevMAs)))},
            threshold \in {RMul(RDiv(RAdd(MaxValue(currentMAs), RMin(currentMAs)), R(2)),
                                <<1, 100>>)}} : TRUE

GetMADivergenceState(prices, idx) ==
    IF idx < DivMinIdx \/ idx < DivLookback THEN Neutral
    ELSE IF idx - DivLookback < DivMinIdx /\ idx = DivMinIdx THEN Neutral
    ELSE DivergenceOf(MAsAt(prices, idx, FALSE),
                      MAsAt(prices,
                            IF idx - DivLookback < DivMinIdx THEN DivMinIdx
                            ELSE idx - DivLookback,
                            TRUE))

DivIndices == {-1, DivLookback - 1, DivMinIdx - 1, DivMinIdx, DivMinIdx + 1,
               DivMinIdx + DivLookback - 1, DivMinIdx + DivLookback, DivLen - 1}

InitDiv ==
    /\ lehmer = LehmerIdle
    /\ env = EnvIdle
    /\ agent = AgentIdle
    /\ trainer = TrainerIdle
    /\ \E b \in [1..4 -> 1..MaxPriceLevel], idx \in DivIndices :
          ret = [op |-> "none", idx |-> idx, divergence |-> Neutral,
                 prices |-> [i \in 1..DivLen |->
                                IF i <= DivMinIdx - DivLookback THEN b[1]
                                ELSE IF i <= DivMinIdx THEN b[2]
                                ELSE IF i = DivMinIdx + 1 THEN b[3] ELSE b[4]]]

GetMADivergenceStateCall ==
    /\ ret.op = "none"
    /\ "divergence" \in DOMAIN ret
    /\ ret' = [ret EXCEPT !.op = "GetMADivergenceState",
                          !.divergence = GetMADivergenceState(ret.prices, ret.idx)]
    /\ UNCHANGED <<lehmer, env, agent, trainer>>

SpecDiv == InitDiv /\ [][GetMADivergenceStateCall]_vars

---------------------------------------------------------------------------
(* The ranking environment configured with MaxConsecutiveTrades 0, on a    *)
(* series that leaves room for four trades in a row.                       *)

InitPenalty ==
    /\ lehmer = LehmerIdle
    /\ agent = AgentIdle
    /\ trainer = TrainerIdle
    /\ \E config \in {RankingConfig(RankingHistory \o <<1, 1, 2, 2, 1>>,
                                   <<R(1000), <<1, 2>>, 0, 0, <<1, 4>>>>)} :
          /\ env = NewMarketEnv(config)
          /\ ret = [op |-> "NewMarketEnv", prev |-> "none", state |-> <<>>,
                    reward |-> Zero, done |-> FALSE, early |-> FALSE,
                    afterReset |-> FALSE, first |-> <<>>, config |-> config,
                    streak |-> <<"none", 0>>]

SpecPenalty == InitPenalty /\ [][NextEnv]_vars

---------------------------------------------------------------------------
(* C1: for every permutation p of {1..7}, decoding the code of p gives p   *)
(* back.                                                                   *)
C1_RoundTrip ==
    (lehmer.kind = "ordering" /\ lehmer.calls = <<"Encode", "Decode">>)
        => lehmer.ordering = lehmer.input

C1_Witness ==
    /\ lehmer.kind = "ordering"
    /\ lehmer.calls = <<"Encode", "Decode">>
    /\ lehmer.input = <<7, 3, 1, 6, 2, 5, 4>>
    /\ lehmer.ordering = <<7, 3, 1, 6, 2, 5, 4>>

(* C2: EncodeMAState is a bijection from the permutations of {1..7} onto   *)
(* 0..5039: every code lies in that range, no other permutation has the    *)
(* code of the one encoded, and every index of the range decodes to a      *)
(* permutation whose code is that index.                                   *)
CodePairs == {<<EncodeMAState(q), q>> : q \in Perms7}

C2_Bijection ==
    /\ (lehmer.kind = "ordering" /\ lehmer.calls # <<>>) =>
          /\ lehmer.stateIndex \in 0..(NumMAStates - 1)
          /\ \A x \in CodePairs : x[1] = lehmer.stateIndex => x[2] = lehmer.input
    /\ (lehmer.kind = "index" /\ lehmer.calls # <<>>) =>
          /\ IsPermutation(lehmer.ordering)
    /\ (lehmer.kind = "index" /\ lehmer.calls = <<"Decode", "Encode">>) =>
          lehmer.stateIndex = lehmer.input

C2_Witness ==
    /\ lehmer.kind = "index"
    /\ lehmer.input = NumMAStates - 1
    /\ lehmer.calls = <<"Decode", "Encode">>
    /\ lehmer.ordering = <<7, 6, 5, 4, 3, 2, 1>>

(* C3: for every positive price series and every configuration             *)
(* NewMarketEnv accepts, cash >= 0 and shares >= 0 hold after every Step   *)
(* made after a Reset.                                                     *)
C3_NonNegative ==
    (ret.op = "Step" /\ ret.afterReset) =>
        (RGe(env.cash, Zero) /\ RGe(env.shares, Zero))

(* C4 as stated: a Step called at an index at or past len(prices) - 2      *)
(* returns the current State, reward 0 and done, and changes no field.     *)
C4_AsStated ==
    [][(ret'.op = "Step" /\ env.currentIdx >= Len(env.prices) - 2) =>
          /\ env' = env
          /\ ret'.state = getState(env)
          /\ ret'.reward = Zero
          /\ ret'.done]_vars

(* C4: a Step called at an index at or past len(prices) - 1 returns the    *)
(* current State, reward 0 and done, and changes no field of the           *)
(* environment (cash, shares, index, trade counters), whatever the action. *)
C4_TerminalStep ==
    [][(ret'.op = "Step" /\ env.currentIdx >= Len(env.prices) - 1) =>
          /\ env' = env
          /\ ret'.state = getState(env)
          /\ ret'.reward = Zero
          /\ ret'.done]_vars

C4_Witness ==
    /\ ret.op = "Step"
    /\ ret.early
    /\ ret.done
    /\ ret.reward = Zero
    /\ env.currentIdx = Len(env.prices) - 1
    /\ env.consecutiveBuys > 0
    /\ RGt(env.shares, Zero)

(* C5 as stated: a Step from an index before len(prices) - 2 advances the  *)
(* index by 1 and is done exactly when the new index is >= len(prices) - 2.*)
C5_AsStated ==
    [][(ret'.op = "Step" /\ env.currentIdx < Len(env.prices) - 2) =>
          /\ env'.currentIdx = env.currentIdx + 1
          /\ ret'.done <=> (env'.currentIdx >= Len(env.prices) - 2)]_vars

(* C5: a Step from an index before len(prices) - 1 advances the index by   *)
(* exactly 1 and is done exactly when the new index is >= len(prices) - 1. *)
C5_Advance ==
    [][(ret'.op = "Step" /\ env.currentIdx < Len(env.prices) - 1) =>
          /\ env'.currentIdx = env.currentIdx + 1
          /\ ret'.done <=> (env'.currentIdx >= Len(env.prices) - 1)]_vars

C5_Witness ==
    /\ ret.op = "Step"
    /\ ~ret.early
    /\ ~ret.done
    /\ env.currentIdx = Len(env.prices) - 2
    /\ env.currentIdx = env.startIdx + 1

(* C6: Reset, after any calls, puts the index at the start index, the cash *)
(* at the initial value, the shares and both trade counters at 0, and      *)
(* returns the State the first Reset returned; a Reset right after a Reset *)
(* changes nothing and returns the same State; no call changes the start   *)
(* index or the initial value.                                             *)
C6_Reset ==
    /\ [](ret.op = "Reset" =>
            /\ env.currentIdx = env.startIdx
            /\ env.cash = env.initialValue
            /\ env.shares = Zero
            /\ env.consecutiveBuys = 0
            /\ env.consecutiveSells = 0
            /\ ret.state = ret.first)
    /\ [][(ret.op = "Reset" /\ ret'.op = "Reset") =>
              (env' = env /\ ret'.state = ret.state)]_vars
    /\ [][env'.startIdx = env.startIdx /\ env'.initialValue = env.initialValue]_vars

C6_Witness ==
    /\ ret.op = "Reset"
    /\ ret.prev = "Step"
    /\ env.scheme = "ranking"
    /\ env.currentIdx = env.startIdx
    /\ env.currentIdx < Len(env.prices) - 1
    /\ ret.state = ret.first
    /\ ret.state.MAState > 0

(* C7: every State Reset or Step returns, the default state included, has  *)
(* its Index in 0..NumStates - 1, NumStates being the product of the       *)
(* cardinalities of the factors of the scheme.                             *)
C7_IndexInRange ==
    /\ NumStatesRanking = NumMAStates * NumPositionCategories * NumPositionCategories
    /\ NumStatesForecast = Cardinality((0..(NumExpRetCategories - 1))
                               \X (0..(NumMinDistCategories - 1))
                               \X (0..(NumPositionCategories - 1))
                               \X (0..(NumPositionCategories - 1)))
    /\ ret.op \in {"Reset", "Step"} =>
          ret.state.Index \in
              0..((IF env.scheme = "ranking" THEN NumStatesRanking ELSE NumStatesForecast) - 1)

C7_Witness ==
    /\ ret.op = "Step"
    /\ env.scheme = "ranking"
    /\ ret.state.MAState > NumMAStates \div 2
    /\ ret.state.SharesCat = PosHigh
    /\ ret.state.Index = EncodeRanking(ret.state.MAState, ret.state.CashCat, PosHigh)

(* C8: Learn(t) sets Q[t.State][t.Action] to old + alpha * (target - old), *)
(* target being t.Reward + gamma * Max(t.NextState) when t.Done is false   *)
(* and t.Reward when it is true, and leaves every other entry of the table *)
(* and the rates as they were.                                             *)
C8_Learn ==
    [][ret'.op = "Learn" =>
          \A t \in {ret'.t}, Q2 \in {agent'.Q} :
              LET old    == QGet(agent.Q, t.State, t.Action)
                  target == IF t.Done THEN t.Reward
                            ELSE RAdd(t.Reward,
                                      RMul(agent.Gamma, QMax(agent.Q, t.NextState)))
              IN  /\ QGet(Q2, t.State, t.Action)
                        = RAdd(old, RMul(agent.Alpha, RSub(target, old)))
                  /\ \A i \in DOMAIN agent.Q \cup DOMAIN Q2 \cup {1},
                         a \in 0..(NumActions - 1) :
                         (i # t.State.Index \/ a # t.Action) =>
                             QRow(Q2, i)[a + 1] = QRow(agent.Q, i)[a + 1]
                  /\ agent'.Alpha = agent.Alpha
                  /\ agent'.Gamma = agent.Gamma]_vars

C8_Witness ==
    /\ ret.op = "Learn"
    /\ ret.learns = 2
    /\ agent.Alpha = <<1, 2>>
    /\ agent.Gamma = <<1, 2>>
    /\ ret.t = [State |-> [Index |-> 0], Action |-> ActionNothing, Reward |-> One,
                NextState |-> [Index |-> NumStatesRanking - 1], Done |-> FALSE]
    /\ QGet(agent.Q, [Index |-> NumStatesRanking - 1], ActionBuyLarge) = <<1, 2>>
    /\ QGet(agent.Q, [Index |-> 0], ActionNothing) = <<5, 8>>

(* C9: the greedy choice (GreedyPolicy.Act and the exploit branch of       *)
(* EpsilonGreedyPolicy.Act) is the lowest index among the maxima of the    *)
(* row: no value of the row is greater than the chosen one and every       *)
(* value before it is smaller; it is 0 for an all-equal or an empty row.   *)
C9_ArgMax ==
    (ret.op = "Act" /\ ~ret.explore) =>
        LET row == QRow(agent.Q, ret.s.Index)
        IN  /\ Len(row) = 0 => ret.action = 0
            /\ Len(row) > 0 =>
                  /\ ret.action \in 0..(Len(row) - 1)
                  /\ \A j \in 1..Len(row) : RLe(row[j], row[ret.action + 1])
                  /\ \A j \in 1..ret.action : RLt(row[j], row[ret.action + 1])
            /\ (\A j, k \in 1..Len(row) : row[j] = row[k]) => ret.action = ActionNothing

C9_Witness ==
    /\ ret.op = "Act"
    /\ ~ret.explore
    /\ agent.policy = "epsilon"
    /\ ret.s.Index = 0
    /\ agent.Q[0] = <<R(-1), <<1, 2>>, <<1, 2>>>>
    /\ ret.action = 1

(* C10: Run(0, reportInterval), for every reportInterval (0 and negative   *)
(* ones included), makes no call of Reset, Act, Step or Learn, leaves the  *)
(* table as it was and prints no report.                                   *)
C10_RunZero ==
    trainer.episodes = 0 =>
        /\ trainer.calls = <<>>
        /\ trainer.reports = <<>>
        /\ agent.Q = trainer.Q0

C10_Witness ==
    /\ trainer.pc = "returned"
    /\ trainer.episodes = 0
    /\ trainer.reportInterval = DefaultReportInterval
    /\ trainer.calls = <<>>
    /\ agent.Q = TrainedTable

(* C11: LocalApproximation fails with ErrEmptyPrices on an empty series,    *)
(* else with ErrInvalidWindowSize when m < 1, else with                    *)
(* ErrInvalidNeighborsCount when n < 1, else with ErrInsufficientData when *)
(* len(returns) < m + 1, and with none of the four otherwise; with an      *)
(* error it returns the prediction 0 and the distance inf, no forecast.    *)
C11_ErrorOrder ==
    ret.op = "LocalApproximation" =>
        /\ ret.result.err =
              IF Len(ret.returns) = 0 THEN "ErrEmptyPrices"
              ELSE IF ret.m < 1 THEN "ErrInvalidWindowSize"
              ELSE IF ret.n < 1 THEN "ErrInvalidNeighborsCount"
              ELSE IF Len(ret.returns) < ret.m + 1 THEN "ErrInsufficientData"
              ELSE ret.result.err
        /\ (Len(ret.returns) >= ret.m + 1 /\ ret.m >= 1 /\ ret.n >= 1) =>
              ret.result.err \notin {"ErrEmptyPrices", "ErrInvalidWindowSize",
                                     "ErrInvalidNeighborsCount", "ErrInsufficientData"}
        /\ ret.result.err # "nil" =>
              /\ ret.result.prediction = Zero
              /\ ret.result.minDistance = Inf
              /\ ret.result.neighbors = <<>>

C11_Witness ==
    /\ ret.op = "LocalApproximation"
    /\ Len(ret.returns) = 1
    /\ ret.m = 0
    /\ ret.n = 0
    /\ ret.result.err = "ErrInvalidWindowSize"
    /\ ret.result.minDistance = Inf

(* C12: LocalApproximation returns an error when the series holds only     *)
(* m + 1 values (m >= 1, n >= 1), as for returns = [1, 2, 3], m = 2,       *)
(* n = 1.                                                                  *)
C12_ErrorAtMPlusOne ==
    (/\ ret.op = "LocalApproximation"
     /\ ret.m >= 1
     /\ ret.n >= 1
     /\ Len(ret.returns) = ret.m + 1) => ret.result.err # "nil"

\* the window ending at position i holds the values of the target window
SameAsTarget(returns, m, i) ==
    \A j \in 0..(m - 1) : returns[i - m + 1 + j + 1] = returns[Len(returns) - m + j + 1]

\* the positions a candidate window may end at
Candidates(returns, m) == (m - 1)..(Len(returns) - 2)

KeptPositions(result) == {result.neighbors[k].position : k \in 1..Len(result.neighbors)}

(* C13: the target window is never a candidate: every kept neighbour ends  *)
(* at a position i with m - 1 <= i <= len(returns) - 2, all those          *)
(* positions are kept when n is at least their number, and when no         *)
(* candidate window is identical to the target the minimal distance        *)
(* returned is greater than 0.                                             *)
C13_NoTargetWindow ==
    (ret.op = "LocalApproximation" /\ ret.result.err = "nil") =>
        /\ KeptPositions(ret.result) \subseteq Candidates(ret.returns, ret.m)
        /\ Len(ret.result.neighbors) =
              IF ret.n < Cardinality(Candidates(ret.returns, ret.m)) THEN ret.n
              ELSE Cardinality(Candidates(ret.returns, ret.m))
        /\ ret.n >= Cardinality(Candidates(ret.returns, ret.m)) =>
              KeptPositions(ret.result) = Candidates(ret.returns, ret.m)
        /\ (\A i \in Candidates(ret.returns, ret.m) :
                ~SameAsTarget(ret.returns, ret.m, i)) =>
              RGt(ret.result.minDistance, Zero)

C13_Witness ==
    /\ ret.op = "LocalApproximation"
    /\ ret.returns = <<R(5), R(6), R(7), R(8), R(9), R(10), R(1), R(2), R(3)>>
    /\ ret.m = 3
    /\ ret.n = 2
    /\ ret.result.err = "nil"
    /\ RGt(ret.result.minDistance, Zero)
    /\ KeptPositions(ret.result) = {2, 3}

\* the candidates identical to the target, and those of them kept
ExactMatches(returns, m) == {i \in Candidates(returns, m) : SameAsTarget(returns, m, i)}

KeptExact(returns, m, result) == ExactMatches(returns, m) \cap KeptPositions(result)

\* the sum of the values that follow the windows ending at the positions S
RECURSIVE NextSum(_, _)
NextSum(returns, S) ==
    IF S = {} THEN Zero
    ELSE LET i == CHOOSE i \in S : TRUE
         IN  RAdd(returns[i + 1 + 1], NextSum(returns, S \ {i}))

TagValue(prices, idx, tag) ==
    IF tag = 7 THEN R(prices[idx + 1])
    ELSE RNorm(SumPrices(prices, idx - 10 * tag + 1, idx), 10 * tag)

C16_ActionTable ==
    [][(ret'.op = "Step" /\ ~ret'.early) =>
          \A a \in {ret'.action}, e2 \in {env'}, p \in {PriceAt(env, env.currentIdx)},
             f \in {IF ret'.action \in {ActionBuySmall, ActionSellSmall}
                    THEN <<1, 10>> ELSE <<1, 2>>} :
              /\ a \in {ActionBuySmall, ActionBuyLarge} =>
                    /\ e2.cash = RSub(env.cash, RMul(env.cash, f))
                    /\ e2.shares =
                          RAdd(env.shares,
                               RDiv(RSub(RMul(env.cash, f),
                                         RMul(RMul(env.cash, f), env.commission)), p))
              /\ (a \in {ActionSellSmall, ActionSellLarge} /\ RGt(env.shares, Zero)) =>
                    /\ e2.shares = RSub(env.shares, RMul(env.shares, f))
                    /\ e2.cash =
                          RSub(RAdd(env.cash, RMul(RMul(env.shares, f), p)),
                               RMul(RMul(RMul(env.shares, f), p), env.commission))
              /\ a = ActionNothing =>
                    /\ e2.cash = env.cash
                    /\ e2.shares = env.shares]_vars

C16_Witness ==
    /\ ret.op = "Step"
    /\ ret.prev = "Step"
    /\ ~ret.early
    /\ ret.action = ActionSellLarge
    /\ RGt(env.shares, Zero)
    /\ RGt(env.cash, RMul(env.initialValue, <<1, 2>>))
    /\ RLt(env.cash, env.initialValue)

(* C17: a Step given a Sell while shares <= 0, or an action value with no  *)
(* case, leaves cash and shares as they were, and like any Step that       *)
(* passes the terminal check advances the index by 1 and returns the State *)
(* at the new index and the reward of the value change, less the penalty   *)
(* if one is due.                                                          *)
C17_SilentNoOp ==
    [][(/\ ret'.op = "Step"
        /\ ~ret'.early
        /\ \/ ret'.action \in {ActionSellSmall, ActionSellLarge} /\ RLe(env.shares, Zero)
           \/ ret'.action \notin ActionNothing..ActionSellLarge) =>
          \A e2 \in {env'}, r \in {ret'} :
              /\ e2.cash = env.cash
              /\ e2.shares = env.shares
              /\ e2.currentIdx = env.currentIdx + 1
              /\ r.state = getState(e2)
              /\ r.done = (e2.currentIdx >= Len(e2.prices) - 1)
              /\ \E tp \in {Zero, env.tradePenalty} :
                    r.reward =
                       RSub(CalculateReward(
                               PortfolioValueAt(env, PriceAt(env, env.currentIdx)),
                               PortfolioValueAt(env, PriceAt(env, env.currentIdx + 1))),
                            tp)]_vars

C17_Witness ==
    /\ ret.op = "Step"
    /\ ret.prev = "Reset"
    /\ ~ret.early
    /\ ret.action = ActionSellSmall
    /\ env.shares = Zero
    /\ env.cash = env.initialValue
    /\ env.currentIdx = env.startIdx + 1

(* C18: NewMarketEnv replaces an InitialCash <= 0 by 10000, a              *)
(* Commission <= 0 by 0.002 and a MinStartIdx < 1 by 20 and uses every     *)
(* other configured value as given; after it cash = initial value > 0,     *)
(* shares = 0 and commission > 0.                                          *)
C18_Defaults ==
    ret.op = "NewMarketEnv" =>
        /\ env.initialValue =
              IF RLe(ret.config.InitialCash, Zero) THEN R(10000) ELSE ret.config.InitialCash
        /\ env.commission =
              IF RLe(ret.config.Commission, Zero) THEN <<1, 500>> ELSE ret.config.Commission
        /\ env.startIdx =
              MaxInt(IF env.scheme = "ranking" THEN 60 ELSE ret.config.ApproxM + 1,
                     IF ret.config.MinStartIdx < 1 THEN 20 ELSE ret.config.MinStartIdx)
        /\ env.prices = ret.config.Prices
        /\ env.approxM = ret.config.ApproxM
        /\ env.approxN = ret.config.ApproxN
        /\ env.scheme = "ranking" =>
              /\ env.maxConsecutiveTrades = ret.config.MaxConsecutiveTrades
              /\ env.tradePenalty = ret.config.TradePenalty
        /\ env.cash = env.initialValue
        /\ RGt(env.cash, Zero)
        /\ env.shares = Zero
        /\ RGt(env.commission, Zero)

\* the returns the forecast environment hands to LocalApproximation
ReturnsHistory(e) == simpleReturns(SubSeq(e.prices, 1, e.currentIdx + 1))

(* C19: in the forecast environment, when the index is in range and the    *)
(* return history is shorter than m + 1 or LocalApproximation returns an   *)
(* error, Reset and Step return the all-zero State (Index 0); the Step     *)
(* still executes the action, advances the index by 1 and returns the      *)
(* reward of the value change.                                             *)
C19_DefaultState ==
    [][(env.scheme = "forecast" /\ ret'.op \in {"Reset", "Step"}) =>
          \A e2 \in {env'}, r \in {ret'} :
              (/\ e2.currentIdx >= e2.startIdx
               /\ e2.currentIdx < Len(e2.prices)
               /\ \/ Len(ReturnsHistory(e2)) < e2.approxM + 1
                  \/ LocalApproximation(ReturnsHistory(e2), e2.approxM, e2.approxN).err
                        # "nil") =>
                    /\ r.state = [Index |-> 0, ExpRetCat |-> 0, MinDistCat |-> 0,
                                  CashCat |-> 0, SharesCat |-> 0]
                    /\ (r.op = "Step" /\ ~r.early) =>
                          /\ e2.currentIdx = env.currentIdx + 1
                          /\ e2.cash =
                                executeAction(env, r.action,
                                              PriceAt(env, env.currentIdx)).cash
                          /\ e2.shares =
                                executeAction(env, r.action,
                                              PriceAt(env, env.currentIdx)).shares
                          /\ r.reward =
                                CalculateReward(
                                    PortfolioValueAt(env, PriceAt(env, env.currentIdx)),
                                    PortfolioValueAt(e2, PriceAt(env, env.currentIdx + 1)))
              ]_vars

C19_Witness ==
    /\ env.scheme = "forecast"
    /\ env.approxN = 0
    /\ ret.op = "Step"
    /\ ~ret.early
    /\ ret.action = ActionBuySmall
    /\ ret.state.Index = 0
    /\ env.currentIdx = env.startIdx + 1
    /\ env.cash = RMul(env.initialValue, <<9, 10>>)

(* C20: with MaxConsecutiveTrades configured as 0, the reward of every     *)
(* Step that passes the terminal check is the reward of the value change,  *)
(* with no penalty taken off, however many Buys or Sells come in a row.    *)
C20_NoPenaltyAtZero ==
    [][(ret'.op = "Step" /\ ~ret'.early /\ env.scheme = "ranking") =>
          \A e2 \in {env'}, r \in {ret'} :
              r.reward =
                 CalculateReward(PortfolioValueAt(env, PriceAt(env, env.currentIdx)),
                                 PortfolioValueAt(e2, PriceAt(env, env.currentIdx + 1)))]_vars

LowestRead(periods, idx) == idx - periods[Len(periods)] + 1

\* getState passes both of its tests and calls GetMAStateForIndex
RankingComputed(e) ==
    /\ e.scheme = "ranking"
    /\ ~(e.currentIdx < e.startIdx \/ e.currentIdx >= Len(e.prices))
    /\ ~(e.currentIdx < MALookback)

(* C22: whenever Reset or Step of the ranking environment computes the     *)
(* ranking, the index is at least the longest window less one, so that no  *)
(* price at a negative position is read.                                   *)
C22_NoNegativeRead ==
    (ret.op \in {"Reset", "Step"} /\ RankingComputed(env)) =>
        /\ env.currentIdx >= MAPeriods120[Len(MAPeriods120)] - 1
        /\ LowestRead(MAPeriods120, env.currentIdx) >= 0

(* C23: in Trainer.Run, Reset is called only first or after the Learn of a *)
(* Step that returned done, Act only after Reset or after the Learn of a   *)
(* Step that did not, Step only after Act and Learn only after Step; Act   *)
(* is given the State the environment returned last, Step the action Act   *)
(* returned, and Learn the transition of that State, that action and what  *)
(* Step returned.                                                          *)
C23_CallOrder ==
    [][ret'.op # ret.op =>
          \A r \in {ret'} :
              /\ r.op = "Reset" => (ret.op = "none" \/ (ret.op = "Learn" /\ ret.done))
              /\ r.op = "Act" =>
                    /\ ret.op = "Reset" \/ (ret.op = "Learn" /\ ~ret.done)
                    /\ r.actArg = ret.returned
              /\ r.op = "Step" =>
                    /\ ret.op = "Act"
                    /\ r.stepArg = ret.actRet
              /\ r.op = "Learn" =>
                    /\ ret.op = "Step"
                    /\ r.learnt = [State |-> ret.before, Action |-> ret.actRet,
                                   Reward |-> ret.reward, NextState |-> ret.returned,
                                   Done |-> ret.done]
                    /\ ret.actArg = ret.before
                    /\ ret.stepArg = ret.actRet]_vars

\* the Learn of the second iteration of an episode: its State is the one
\* the first Step returned
C23_Witness ==
    /\ ret.op = "Learn"
    /\ Len(trainer.calls) >= 7
    /\ SubSeq(trainer.calls, Len(trainer.calls) - 6, Len(trainer.calls))
          = <<"Reset", "Act", "Step", "Learn", "Act", "Step", "Learn">>
    /\ ret.learnt.Done
    /\ ret.learnt.State # ret.learnt.NextState

(* C24: when LocalApproximation returns a forecast, the distances of the   *)
(* neighbours the heap kept, in ascending order, are those of the first    *)
(* min(n, number of candidates) candidates sorted by ascending distance;   *)
(* the minimal distance returned is the least distance of all candidates,  *)
(* and with n above the number of candidates every candidate is kept.      *)
C24_HeapAsSort ==
    (ret.op = "LocalApproximation" /\ ret.result.err = "nil") =>
        \A kept \in {Distances(ret.result.neighbors)},
           all \in {Distances(SortAndTruncate(ret.returns, ret.m, Len(ret.returns)))} :
            /\ kept = Distances(SortAndTruncate(ret.returns, ret.m, ret.n))
            /\ Len(all) = Cardinality(Candidates(ret.returns, ret.m))
            /\ Len(all) >= 1
            /\ ret.result.minDistance = RMin(all)
            /\ ret.n > Len(all) =>
                  /\ kept = all
                  /\ KeptPositions(ret.result) = Candidates(ret.returns, ret.m)

\* n below the number of candidates, and the nearest candidate is the last
\* one scanned: it took the place of a farther one at the root
C24_Witness ==
    /\ ret.op = "LocalApproximation"
    /\ ret.result.err = "nil"
    /\ ret.n = 1
    /\ Cardinality(Candidates(ret.returns, ret.m)) = 3
    /\ KeptPositions(ret.result) = {Len(ret.returns) - 2}
    /\ \A i \in Candidates(ret.returns, ret.m) \ {Len(ret.returns) - 2} :
          RGt(WindowDistance(ret.returns, ret.m, i), ret.result.minDistance)

\* the series is not empty, m >= 1, n >= 1, len(returns) >= m + 1 and
\* maxStart >= minStart
PassesChecks(returns, m, n) ==
    /\ Len(returns) # 0
    /\ m >= 1
    /\ n >= 1
    /\ Len(returns) >= m + 1
    /\ Len(returns) - 1 - 1 >= m - 1

DivergenceAsStated(prices, idx) ==
    IF idx = MAPeriods120[Len(MAPeriods120)] - 1 THEN Neutral
    ELSE DivergenceOf(MAsAt(prices, idx, FALSE),
                      MAsAt(prices,
                            IF idx - DivLookback < MAPeriods120[Len(MAPeriods120)] - 1
                            THEN MAPeriods120[Len(MAPeriods120)] - 1
                            ELSE idx - DivLookback,
                            FALSE))

(* C26: at every index from the longest window less one on,                *)
(* GetMADivergenceState returns the comparison of the spread at idx with   *)
(* the spread 10 steps earlier, the earlier index clamped to the longest   *)
(* window less one, and Neutral for lack of data only at that index.       *)
C26_AsStated ==
    (ret.op = "GetMADivergenceState" /\ ret.idx >= MAPeriods120[Len(MAPeriods120)] - 1) =>
        ret.divergence = DivergenceAsStated(ret.prices, ret.idx)

(* C27: a Step that follows a Step which returned done returns done and    *)
(* the reward 0 and leaves cash, shares, the index and the trade counters  *)
(* as they were, whatever its action.                                      *)
C27_DoneAbsorbing ==
    [][(ret.op = "Step" /\ ret.done /\ ret'.op = "Step") =>
          \A e2 \in {env'}, r \in {ret'} :
              /\ r.done
              /\ r.reward = Zero
              /\ r.early
              /\ e2.cash = env.cash
              /\ e2.shares = env.shares
              /\ e2.currentIdx = env.currentIdx
              /\ e2.consecutiveBuys = env.consecutiveBuys
              /\ e2.consecutiveSells = env.consecutiveSells
              /\ e2 = env]_vars

\* a Buy given after the episode that bought shares is over
C27_Witness ==
    /\ ret.op = "Step"
    /\ ret.prev = "Step"
    /\ ret.early
    /\ ret.done
    /\ ret.action = ActionBuyLarge
    /\ RGt(env.shares, Zero)
    /\ RGt(env.cash, Zero)
    /\ env.currentIdx > env.startIdx

\* how many of the calls made since the last Reset are calls of op
CallsSinceReset(calls, op) ==
    Cardinality({i \in 1..Len(calls) :
                    /\ calls[i] = op
                    /\ \E j \in 1..(i - 1) : calls[j] = "Reset"
                    /\ \A j \in (i + 1)..Len(calls) : calls[j] # "Reset"})

\* max(1, len(prices) - 1 - startIdx)
EpisodeLength(e) ==
    IF Len(e.prices) - 1 - e.startIdx < 1 THEN 1 ELSE Len(e.prices) - 1 - e.startIdx

(* C28: in every episode of Trainer.Run the Step that returns done is the  *)
(* max(1, len(prices) - 1 - startIdx)-th since Reset and no earlier one    *)
(* does; on a series that is empty or shorter than the start index the     *)
(* episode is one Step and one Learn of a terminal transition of reward 0  *)
(* from the default state to the default state; and Run returns.           *)
C28_EpisodesTerminate ==
    /\ [](ret.op \in {"Step", "Learn"} =>
             /\ CallsSinceReset(trainer.calls, "Step") <= EpisodeLength(env)
             /\ ret.done <=> CallsSinceReset(trainer.calls, "Step") = EpisodeLength(env)
             /\ (ret.op = "Learn" /\ Len(env.prices) <= env.startIdx) =>
                   /\ CallsSinceReset(trainer.calls, "Step") = 1
                   /\ CallsSinceReset(trainer.calls, "Learn") = 1
                   /\ ret.learnt.Done
                   /\ ret.learnt.Reward = Zero
                   /\ ret.learnt.State = getState([env EXCEPT !.currentIdx = Len(env.prices)])
                   /\ ret.learnt.NextState = ret.learnt.State
                   /\ ret.learnt.State.Index = 0)
    /\ <>(trainer.pc = "returned")

\* the second Step of the second episode returns done, the first did not
C28_Witness ==
    /\ ret.op = "Step"
    /\ ret.done
    /\ EpisodeLength(env) = 2
    /\ CallsSinceReset(trainer.calls, "Step") = 2
    /\ trainer.ep = 1

\* the Step traded (it did not return at its first test) in an environment
\* whose commission rate is in (0, 1]
TradedAtFairRate(r) ==
    /\ r.op = "Step"
    /\ ~r.early
    /\ RGt(env.commission, Zero)
    /\ RLe(env.commission, One)

(* C29: with a commission rate in (0, 1] the portfolio value at the        *)
(* execution price, cash + shares * price, is never larger after           *)
(* executeAction than before it; it is smaller when a Buy spent a positive *)
(* amount of cash or a Sell sold a positive number of shares, and equal    *)
(* for Nothing, for an action value with no case and for a Sell with no    *)
(* shares.                                                                 *)
C29_NoValueCreated ==
    [][\A r \in {ret'} : \A e2 \in {env'} :
          \A price \in {IF env.currentIdx < Len(env.prices)
                        THEN PriceAt(env, env.currentIdx) ELSE One} :
          \A before \in {RAdd(env.cash, RMul(env.shares, price))} :
          \A after \in {RAdd(e2.cash, RMul(e2.shares, price))} :
             TradedAtFairRate(r) =>
                /\ RGt(price, Zero)
                /\ RLe(after, before)
                /\ (IsBuy(r.action) /\ RGt(env.cash, Zero)) =>
                      /\ RLt(e2.cash, env.cash)
                      /\ RLt(after, before)
                /\ (IsSell(r.action) /\ RGt(env.shares, Zero)) =>
                      /\ RLt(e2.shares, env.shares)
                      /\ RLt(after, before)
                /\ (\/ ~IsBuy(r.action) /\ ~IsSell(r.action)
                    \/ IsBuy(r.action) /\ ~RGt(env.cash, Zero)
                    \/ IsSell(r.action) /\ ~RGt(env.shares, Zero)) =>
                      /\ e2.cash = env.cash
                      /\ e2.shares = env.shares
                      /\ after = before]_vars

\* a Sell of shares bought by an earlier Step, at a commission rate in (0, 1]
C29_Witness ==
    /\ TradedAtFairRate(ret)
    /\ ret.prev = "Step"
    /\ IsSell(ret.action)
    /\ RGt(env.shares, Zero)
    /\ RLt(env.cash, env.initialValue)

\* getState returns the default state in the place of one built from the
\* portfolio: the index is outside the series or before the start index,
\* the ranking has fewer than 60 prices behind it, or the forecast failed
DefaultSubstituted(e) ==
    \/ e.currentIdx < e.startIdx
    \/ e.currentIdx >= Len(e.prices)
    \/ e.scheme = "ranking" /\ e.currentIdx < MALookback
    \/ /\ e.scheme = "forecast"
       /\ \A h \in {simpleReturns(SubSeq(e.prices, 1, e.currentIdx + 1))} :
             \/ Len(h) < e.approxM + 1
             \/ LocalApproximation(h, e.approxM, e.approxN).err # "nil"

BothBands(s, band) == s.CashCat = band /\ s.SharesCat = band

(* C30: a State built from the portfolio at an index where the portfolio   *)
(* value is positive never has both bands None nor both bands High; the    *)
(* State Reset builds from the portfolio has cash band High and shares     *)
(* band None; and a State whose bands are both None is the default state   *)
(* put in the place of a built one.                                        *)
C30_BandsOfState ==
    ret.op \in {"Reset", "Step"} =>
       /\ (/\ ~DefaultSubstituted(env)
           /\ RGt(PortfolioValueAt(env, PriceAt(env, env.currentIdx)), Zero)) =>
              /\ ~BothBands(ret.state, PosNone)
              /\ ~BothBands(ret.state, PosHigh)
       /\ (ret.op = "Reset" /\ ~DefaultSubstituted(env)) =>
              /\ ret.state.CashCat = PosHigh
              /\ ret.state.SharesCat = PosNone
       /\ BothBands(ret.state, PosNone) => DefaultSubstituted(env)

====
